---- MODULE Spec2Model ----
(***************************************************************************)
(* State-machine model of the D-Bus proxy.  The repository holds three     *)
(* programs that implement the same forwarding engine:                     *)
(*                                                                         *)
(*   "multibus"  src/DBus_proxy.c               (ProxyContext, setup_proxy, *)
(*                                               cleanup_proxy)             *)
(*   "config"    src/unnamed/part_000:1-603     (configuration-file proxy, *)
(*                                               one bus, no teardown)      *)
(*   "crossbus"  src/unnamed/part_000:604-1229  (ProxyState, hash-table     *)
(*                                               ledger, signal_handler)    *)
(*                                                                         *)
(* One behaviour of the model is one run of one of the programs: the       *)
(* variable variant is fixed by Init.  Each action is one step of main     *)
(* (a call that can fail, one iteration of the registration loop) or one   *)
(* callback dispatched by the GLib main loop.  The outcome of every        *)
(* library call is drawn by \E from the outcomes the call can have.        *)
(***************************************************************************)
EXTENDS Integers, Sequences, FiniteSets, TLC

\* Bounds of the model.
MaxIfaces == 2      \* interfaces in the introspection document
MaxSigs == 1        \* signals declared per interface
MaxCalls == 2       \* method invocations received during a run
MaxSignals == 2     \* signals the source delivers during a run

Variants == {"multibus", "config", "crossbus"}

\* Largest identifier a run can hand out (registrations and subscriptions
\* use separate counters; PropertiesChanged adds one subscription).
IdMax == MaxIfaces * MaxSigs + MaxIfaces + 1

VARIABLES
    variant,            \* which of the three programs runs
    interfaces,         \* introspection result: interfaces[k] = number of signals of interface k
    interfacesNull,     \* node_info->interfaces is NULL (only possible for an empty list)
    propsAt,            \* index of the interface of the document that is
                        \*   org.freedesktop.DBus.Properties (0: not in the document)
    proxy_bus_name,     \* the facade name given on the command line or in the file
    target_address,     \* the bus the facade is exposed on: "system" or "session"
    nameOwner,          \* who owns the source service name on the source bus:
                        \*   "source", "proxy", "none"
    pc,                 \* position of main
    i,                  \* index of the registration loop (0-based, as in the source)
    error,              \* the GError* slot of setup: "null" or "dangling" (freed, not reset)
    source_bus,         \* connection handle: "null", "open", "unref"
    target_bus,
    ctx,                \* multibus: the ProxyContext allocation: "null", "alive", "freed"
    registration_id,    \* multibus: ctx->registration_id
    ctx_subscriptions,  \* multibus: ctx->signal_subscriptions (GList, newest first)
    proxy_state,        \* crossbus: "null", "alive", "released" (tables destroyed, not yet freed)
    registered_objects, \* crossbus: keys of proxy_state->registered_objects
    signal_subscriptions, \* crossbus: keys of proxy_state->signal_subscriptions
    targetRegs,         \* registrations live on the target bus: [id, iface]
    sourceSubs,         \* subscriptions live on the source bus: [id, iface, sig]
    subCalls,           \* every g_dbus_connection_signal_subscribe call made: [iface, sig, id]
    nextRegId,          \* next registration id the library hands out
    nextSubId,          \* next subscription id the library hands out
    regResult,          \* per interface: "none", "ok", "fail" (return of register_object)
    unregCalls,         \* id -> number of g_dbus_connection_unregister_object calls
    unsubCalls,         \* id -> number of g_dbus_connection_signal_unsubscribe calls
    connectCalls,       \* [source, target]: connection attempts
    introspectCalls,    \* Introspect calls issued
    nameRequests,       \* successful g_bus_own_name* calls
    setupFailure,       \* which fatal setup step failed: "none", "connect", ...
    cleanupCalls,       \* calls of the teardown function
    exited,             \* "no", "main", "signal", "crash"
    exitStatus,         \* -1 while running, else the process status
    inv,                \* method invocations: [st, result, values, errors, req, out,
                        \*   issued, src, reply]
    received,           \* signals delivered by the source subscriptions, in order
    emitted,            \* signals emitted on the target bus, in order
    emitResult,         \* return of the last g_dbus_connection_emit_signal: "none", "ok", "failed"
    queued,             \* callbacks GDBus has scheduled and the loop has not run yet:
                        \*   [id, signal], one per further subscription an emission matched
    srcProp,            \* the value of the property held by the source service
    propLog             \* the property access handled last: request, call, return

vars == <<variant, interfaces, interfacesNull, pc, i, error, source_bus, target_bus,
          ctx, registration_id, ctx_subscriptions, proxy_state, registered_objects,
          signal_subscriptions, targetRegs, sourceSubs, nextRegId, nextSubId,
          regResult, unregCalls, unsubCalls, connectCalls, introspectCalls,
          nameRequests, setupFailure, cleanupCalls, exited, exitStatus, inv,
          received, emitted, emitResult, srcProp, propLog, subCalls, propsAt, queued,
          proxy_bus_name, target_address, nameOwner>>

\* Groups used in UNCHANGED.  cfgVars is the configuration and the bus
\* around the process: no step of the programs changes it.
cfgVars == <<variant, interfaces, interfacesNull, propsAt, proxy_bus_name, target_address,
             nameOwner>>
busVars == <<source_bus, target_bus>>
mbVars == <<ctx, registration_id, ctx_subscriptions>>
xbVars == <<proxy_state, registered_objects, signal_subscriptions>>
regVars == <<targetRegs, sourceSubs, nextRegId, nextSubId, regResult>>
relVars == <<unregCalls, unsubCalls, cleanupCalls>>
histVars == <<connectCalls, introspectCalls, nameRequests, setupFailure>>
exitVars == <<exited, exitStatus>>
sigVars == <<received, emitted, emitResult, queued>>
propVars == <<srcProp, propLog>>

NumIfaces == Len(interfaces)

Reverse(s) == [j \in 1..Len(s) |-> s[Len(s) + 1 - j]]

SeqRange(s) == {s[j] : j \in 1..Len(s)}

\* Sequences of length 0..MaxIfaces over 0..MaxSigs: the documents the source can return.
InterfaceLists == UNION {[1..k -> 0..MaxSigs] : k \in 0..MaxIfaces}

FirstPc(v) == IF v = "crossbus" THEN "init" ELSE "connect"

NoError == [domain |-> "none", code |-> "none", message |-> "none"]

\* GVariant values: data wrapped depth times in a variant ("v") container.
PlainValue(x) == [depth |-> 0, data |-> x]
NullVariant == PlainValue("NULL")
EmptyTuple == PlainValue("()")
Wrap(v) == [v EXCEPT !.depth = @ + 1]
Unwrap(v) == [v EXCEPT !.depth = @ - 1]

\* The values the property of the source service takes.
PropertyValues == {"a", "b"}

\* propLog before any property access has been handled.
NoAccess ==
    [op |-> "none", interface_name |-> 0, property_name |-> "none",
     value |-> NullVariant, call |-> <<>>, answer |-> <<>>,
     ret |-> NullVariant, done |-> FALSE, error |-> NoError]

\* The state of the process when main starts, for the program and the
\* introspection document chosen.
Start ==
    /\ pc = FirstPc(variant)
    /\ i = 0
    /\ error = "null"
    /\ source_bus = "null"
    /\ target_bus = "null"
    /\ ctx = IF variant = "multibus" THEN "alive" ELSE "null"
    /\ registration_id = 0
    /\ ctx_subscriptions = <<>>
    /\ proxy_state = "null"
    /\ registered_objects = {}
    /\ signal_subscriptions = {}
    /\ targetRegs = {}
    /\ sourceSubs = {}
    /\ subCalls = {}
    /\ nextRegId = 1
    /\ nextSubId = 1
    /\ regResult = [k \in 1..Len(interfaces) |-> "none"]
    /\ unregCalls = [id \in 0..IdMax |-> 0]
    /\ unsubCalls = [id \in 0..IdMax |-> 0]
    /\ connectCalls = [source |-> 0, target |-> 0]
    /\ introspectCalls = 0
    /\ nameRequests = 0
    /\ setupFailure = "none"
    /\ cleanupCalls = 0
    /\ exited = "no"
    /\ exitStatus = -1
    /\ inv = [k \in 1..MaxCalls |->
                [st |-> "idle", result |-> "none", values |-> 0, errors |-> 0,
                 req |-> <<>>, out |-> <<>>, issued |-> 0, src |-> <<>>, reply |-> <<>>]]
    /\ received = <<>>
    /\ emitted = <<>>
    /\ emitResult = "none"
    /\ queued = {}
    /\ srcProp = "a"
    /\ propLog = NoAccess

\* Any of the three programs, started against a source object whose
\* document does not list org.freedesktop.DBus.Properties.
Init ==
    /\ variant \in Variants
    /\ interfaces \in InterfaceLists
    /\ interfacesNull \in (IF Len(interfaces) = 0 THEN BOOLEAN ELSE {FALSE})
    /\ propsAt = 0
    /\ proxy_bus_name = "org.example.Proxy"
    /\ target_address = "session"
    /\ nameOwner = "source"
    /\ Start

----------------------------------------------------------------------------
(* Library calls shared by the three programs.                             *)

\* A process that ends: main returns st, or exit(st) is called.
Exit_loop_goes_on(by, st) ==
    /\ pc' = "running"
    /\ exited' = by
    /\ exitStatus' = st
Exit(by, st) ==
    /\ pc' = "exited"
    /\ exited' = by
    /\ exitStatus' = st

\* The process is killed by a fault (NULL dereference, double free detected
\* by the allocator): no further code of the program runs.
Crash ==
    /\ pc' = "crashed"
    /\ exited' = "crash"
    /\ exitStatus' = 139

\* g_dbus_connection_signal_subscribe for the k signals of one interface, in
\* order: a subscription the library refuses returns 0, the others get
\* consecutive ids starting at base.
SubIds(k, failed, base) ==
    [j \in 1..k |->
        IF j \in failed THEN 0
        ELSE base + Cardinality({m \in 1..(j - 1) : m \notin failed})]

NewSubs(iface, ids) ==
    {[id |-> ids[j], iface |-> iface, sig |-> j] : j \in {m \in DOMAIN ids : ids[m] # 0}}

\* The subscribe calls made for the signals of one interface, with the id
\* each returned.
SubCallsOf(iface, ids) ==
    {[iface |-> iface, sig |-> j, id |-> ids[j]] : j \in DOMAIN ids}

\* Outcomes of g_dbus_connection_register_object given the caller's error
\* slot.  With a dangling (freed, non-NULL) slot the call and the error
\* report that follows it are undefined behaviour: the library may refuse
\* the call (precondition *error == NULL), may carry it out, and the report
\* (error->message, g_error_free) may fault.
RegisterOutcomes(err) ==
    IF err = "null" THEN {"ok", "fail"} ELSE {"ok", "fail", "crash"}

\* The for-loop condition interfaces[i] != NULL over a list of n interfaces.
RegisterLoopContinues_off(idx, n) == idx + 1 < n
RegisterLoopContinues_never(idx, n) == FALSE
RegisterLoopContinues(idx, n) == idx < n


\* g_dbus_connection_signal_unsubscribe once per element of a GList of ids.
UnsubscribeList(counts, list) ==
    [id \in DOMAIN counts |->
        counts[id] + Cardinality({j \in 1..Len(list) : list[j] = id})]

\* One release call per key of a hash table of ids.
ReleaseKeys(counts, keys) ==
    [id \in DOMAIN counts |-> counts[id] + (IF id \in keys THEN 1 ELSE 0)]

----------------------------------------------------------------------------
(* Method-call forwarding (the three programs share the shape of the       *)
(* handler: g_dbus_connection_call with a completion lambda).              *)

\* The service descriptor of the context: the source service name and the
\* object path given on the command line or in the configuration file.
source_bus_name == "source_bus_name"
source_object_path == "source_object_path"

\* The bus the source service is on (the default of the command line).
source_address == "system"

\* Source and target are the same message bus: the configuration-file
\* program has one bus; the other two get the shared connection of the bus
\* from g_bus_get_sync for both endpoints when the two selectors are equal.
SameBus == variant = "config" \/ target_address = source_address

\* The facade name is requested with G_BUS_NAME_OWNER_FLAGS_NONE: while
\* another connection owns the name the request waits in the queue of the
\* name.
FacadeQueuedForSourceName ==
    /\ nameRequests >= 1
    /\ proxy_bus_name = source_bus_name
    /\ SameBus

\* The connection a call sent to bus_name on the source bus is delivered
\* to.
RoutedTo(call) ==
    IF call.bus_name = source_bus_name THEN nameOwner ELSE "none"

\* The connection the source service is reached on: ctx->source_bus,
\* proxy_state->source_bus, or the single connection bus of the
\* configuration-file program.
SourceConnection == IF variant = "config" THEN "bus" ELSE "source_bus"

\* The connection the facade is exposed on.
TargetConnection == IF variant = "config" THEN "bus" ELSE "target_bus"

\* The method invocations GDBus can dispatch to handle_method_call: the k-th
\* invocation of a run, for a method of a registered interface, at the path
\* the interfaces are registered at.
Requests ==
    {[invocation |-> k,
      object_path |-> source_object_path,
      interface_name |-> f,
      method_name |-> "Echo",
      parameters |-> <<"hi", k>>] : k \in 1..MaxCalls, f \in 1..MaxIfaces}

\* The interface the k-th invocation is addressed to: the callers go round
\* the interfaces registered on the target bus.
CalledInterface(k) ==
    LET R == {r.iface : r \in targetRegs}
        n == ((k - 1) % Cardinality(R)) + 1
    IN  CHOOSE f \in R : Cardinality({g \in R : g < f}) = n - 1

\* The thread of the main loop is inside g_dbus_connection_call_sync: a
\* property handler has issued its call and the answer has not come.  The
\* call waits on a private main context, so the loop dispatches nothing.
LoopBlocked == propLog.op # "none" /\ propLog.answer = <<>>

\* g_main_loop_run is free to dispatch the next callback.
LoopIdle_always == TRUE
LoopIdle_until_emit_failure == ~LoopBlocked /\ emitResult # "failed"
LoopIdle_no_call_pending == ~LoopBlocked /\ \A k \in 1..MaxCalls : inv[k].st # "pending"
LoopIdle == ~LoopBlocked

\* The handler issues the outbound call and returns; the invocation stays
\* pending until the completion callback runs.  A method call can only
\* arrive for an interface registered on the target bus, while the main
\* loop runs.  Invocations are numbered in order of arrival.  forward[req]
\* is the sequence of g_dbus_connection_call calls the handler makes.
HandleMethodCall(forward) ==
    /\ pc = "running"
    /\ LoopIdle
    /\ targetRegs # {}
    /\ \E k \in 1..MaxCalls, req \in Requests :
        /\ inv[k].st = "idle"
        /\ \A m \in 1..(k - 1) : inv[m].st # "idle"
        /\ req.invocation = k
        /\ req.interface_name = CalledInterface(k)
        /\ inv' = [inv EXCEPT ![k].st = "pending",
                              ![k].req = <<req>>,
                              ![k].out = forward[req],
                              ![k].issued = Len(forward[req])]
    /\ UNCHANGED <<cfgVars, sigVars, propVars, subCalls, pc, i, error, busVars, mbVars, xbVars, regVars,
                   relVars, histVars, exitVars>>

\* Outcomes of g_dbus_connection_call_finish: the source's reply, the
\* source's error, or the timeout of the outbound call.
CallResults == {"value", "error", "timeout"}

\* The error the source service returns for a call it rejects.
SourceError ==
    [domain |-> "G_DBUS_ERROR", code |-> "G_DBUS_ERROR_UNKNOWN_METHOD",
     message |-> "No such method"]

\* The error GDBus produces when the timeout of an outbound call elapses.
TimeoutError ==
    [domain |-> "G_IO_ERROR", code |-> "G_IO_ERROR_TIMED_OUT",
     message |-> "Timeout was reached"]

\* What g_dbus_connection_call_finish hands to the completion callback of
\* the call of invocation k: the value the source returned (the source
\* echoes the parameters) or a GError.
SourceResult(k, parameters, result) ==
    [kind |-> result,
     call |-> k,
     value |-> IF result = "value" THEN parameters ELSE <<>>,
     error |-> CASE result = "value" -> NoError
                 [] result = "error" -> SourceError
                 [] result = "timeout" -> TimeoutError]

SourceResults ==
    {SourceResult(k, <<"hi", k>>, result) : k \in 1..MaxCalls, result \in CallResults}

\* g_dbus_method_invocation_return_value(inv, result)
ReturnValue(src) ==
    [kind |-> "value", value |-> src.value, error |-> NoError, origin |-> src.call]

\* g_dbus_method_invocation_return_gerror(inv, error)
ReturnGError(src) ==
    [kind |-> "error", value |-> <<>>, error |-> src.error, origin |-> src.call]

\* g_dbus_method_invocation_return_error_literal(inv, domain, code, message)
ReturnErrorLiteral(src, domain, code, message) ==
    [kind |-> "error", value |-> <<>>,
     error |-> [domain |-> domain, code |-> code, message |-> message],
     origin |-> src.call]

\* The main loop dispatches the completion callback of one pending call;
\* the callback answers the invocation it got as user_data: reply[result]
\* counts the replies it sends, payload[src] is what it sends.  The call
\* object and the invocation's request are gone once the callback returns.
CallFinished(reply, payload) ==
    /\ pc = "running"
    /\ LoopIdle
    /\ \E k \in 1..MaxCalls, result \in CallResults :
        /\ inv[k].st = "pending"
        /\ Len(inv[k].out) >= 1
        /\ LET call == inv[k].out[1]
               src == SourceResult(k, call.parameters, result)
               t == call.user_data
               done == [inv EXCEPT ![k].st = "replied",
                                   ![k].result = result,
                                   ![k].req = <<>>,
                                   ![k].out = <<>>,
                                   ![k].src = <<src>>]
           IN  inv' = [done EXCEPT ![t].values = @ + reply[result].values,
                                   ![t].errors = @ + reply[result].errors,
                                   ![t].reply = Append(@, payload[src])]
    /\ UNCHANGED <<cfgVars, sigVars, propVars, subCalls, pc, i, error, busVars, mbVars, xbVars, regVars,
                   relVars, histVars, exitVars>>

----------------------------------------------------------------------------
(* multibus: src/DBus_proxy.c                                              *)

\* if (!ctx->source_bus) / if (!ctx->target_bus)
MB_ConnectFailed(out) == out # "ok"

\* if (!xml) / if (!ctx->introspection_data)
MB_IntrospectFailed_ignored(out) == FALSE
MB_IntrospectFailed(out) == out # "ok"

\* setup_proxy: create_connection for the source, then for the target.
MB_setup_proxy_connect ==
    /\ variant = "multibus"
    /\ pc = "connect"
    /\ \E out \in {"ok", "source_fail", "target_fail"} :
        /\ connectCalls' = [source |-> connectCalls.source + 1,
                            target |-> connectCalls.target
                                         + (IF out = "source_fail" THEN 0 ELSE 1)]
        /\ setupFailure' = IF out = "ok" THEN setupFailure ELSE "connect"
        /\ IF MB_ConnectFailed(out)
             THEN /\ source_bus' = IF out = "source_fail" THEN "null" ELSE "unref"
                  /\ target_bus' = "null"
                  /\ ctx' = "freed"
                  /\ Exit("main", 1)
             ELSE /\ source_bus' = IF out = "source_fail" THEN "null" ELSE "open"
                  /\ target_bus' = IF out = "ok" THEN "open" ELSE "null"
                  /\ ctx' = ctx
                  /\ pc' = "introspect"
                  /\ UNCHANGED exitVars
    /\ UNCHANGED <<cfgVars, sigVars, propVars, subCalls, i, error, registration_id, ctx_subscriptions, xbVars,
                   regVars, relVars, introspectCalls, nameRequests, inv>>

\* setup_proxy: the Introspect call and g_dbus_node_info_new_for_xml.
MB_setup_proxy_introspect ==
    /\ variant = "multibus"
    /\ pc = "introspect"
    /\ \E out \in {"ok", "call_fail", "parse_fail"} :
        /\ introspectCalls' = introspectCalls + 1
        /\ setupFailure' = CASE out = "ok" -> setupFailure
                             [] out = "call_fail" -> "introspect"
                             [] out = "parse_fail" -> "parse"
        /\ IF MB_IntrospectFailed(out)
             THEN /\ source_bus' = "unref"
                  /\ target_bus' = "unref"
                  /\ ctx' = "freed"
                  /\ Exit("main", 1)
             ELSE /\ pc' = "register"
                  /\ UNCHANGED <<busVars, ctx, exitVars>>
    /\ i' = 0
    /\ UNCHANGED <<cfgVars, sigVars, propVars, subCalls, error, registration_id, ctx_subscriptions, xbVars,
                   regVars, relVars, connectCalls, nameRequests, inv>>

\* setup_proxy: one iteration of the registration loop.  ctx->registration_id
\* is assigned the return value of every register call; every subscription
\* id, 0 included, is prepended to ctx->signal_subscriptions.  error is
\* freed on failure and not reset.
MB_setup_proxy_register ==
    /\ variant = "multibus"
    /\ pc = "register"
    /\ \/ /\ interfacesNull           \* interfaces[0] read through a NULL pointer
          /\ Crash
          /\ UNCHANGED <<i, error, mbVars, regVars, subCalls>>
       \/ /\ ~interfacesNull
          /\ RegisterLoopContinues(i, NumIfaces)
          /\ \E out \in RegisterOutcomes(error), failed \in SUBSET (1..interfaces[i + 1]) :
               LET ids == SubIds(interfaces[i + 1], failed, nextSubId) IN
               CASE out = "crash" ->
                      /\ Crash
                      /\ UNCHANGED <<i, error, mbVars, regVars, subCalls>>
                 [] out = "fail" ->
                      /\ registration_id' = 0
                      /\ error' = "dangling"
                      /\ regResult' = [regResult EXCEPT ![i + 1] = "fail"]
                      /\ i' = i + 1
                      /\ UNCHANGED <<pc, exitVars, ctx, ctx_subscriptions,
                                     targetRegs, sourceSubs, nextRegId, nextSubId,
                                     subCalls>>
                 [] out = "ok" ->
                      /\ registration_id' = nextRegId
                      /\ nextRegId' = nextRegId + 1
                      /\ targetRegs' = targetRegs \cup {[id |-> nextRegId, iface |-> i + 1]}
                      /\ regResult' = [regResult EXCEPT ![i + 1] = "ok"]
                      /\ ctx_subscriptions' = Reverse(ids) \o ctx_subscriptions
                      /\ sourceSubs' = sourceSubs \cup NewSubs(i + 1, ids)
                      /\ subCalls' = subCalls \cup SubCallsOf(i + 1, ids)
                      /\ nextSubId' = nextSubId + Cardinality(NewSubs(i + 1, ids))
                      /\ i' = i + 1
                      /\ UNCHANGED <<pc, exitVars, ctx, error>>
    /\ UNCHANGED <<cfgVars, sigVars, propVars, busVars, xbVars, relVars, histVars, inv>>

\* setup_proxy: g_bus_own_name_on_connection (its result is not looked at),
\* then main installs the SIGINT/SIGTERM sources and runs the loop.
MB_setup_proxy_own_name ==
    /\ variant = "multibus"
    /\ pc = "register"
    /\ ~interfacesNull
    /\ ~RegisterLoopContinues(i, NumIfaces)
    /\ nameRequests' = nameRequests + 1
    /\ pc' = "running"
    /\ UNCHANGED <<cfgVars, sigVars, propVars, subCalls, i, error, busVars, mbVars, xbVars, regVars, relVars,
                   connectCalls, introspectCalls, setupFailure, exitVars, inv>>

\* handle_method_call: g_dbus_connection_call(ctx->source_bus,
\* ctx->source_bus_name, ctx->source_object_path, interface_name, method_name,
\* parameters, NULL, G_DBUS_CALL_FLAGS_NONE, -1, NULL, lambda, invocation)
MB_forward_call_twice(req) ==
    LET c == [connection |-> "source_bus", bus_name |-> source_bus_name,
              object_path |-> source_object_path,
              interface_name |-> req.interface_name, method_name |-> req.method_name,
              parameters |-> req.parameters, timeout_msec |-> "-1",
              user_data |-> req.invocation]
    IN  <<c, c>>
MB_forward_call(req) ==
    <<[connection |-> "source_bus", bus_name |-> source_bus_name,
       object_path |-> source_object_path,
       interface_name |-> req.interface_name, method_name |-> req.method_name,
       parameters |-> req.parameters, timeout_msec |-> "-1",
       user_data |-> req.invocation]>>

MB_handle_method_call ==
    /\ variant = "multibus"
    /\ HandleMethodCall([req \in Requests |-> MB_forward_call(req)])

\* if (result) return_value(inv, result) else return_gerror(inv, error)
MB_call_reply_both(result) ==
    IF result = "value" THEN [values |-> 1, errors |-> 1]
    ELSE [values |-> 0, errors |-> 1]
MB_call_reply(result) ==
    IF result = "value" THEN [values |-> 1, errors |-> 0]
    ELSE [values |-> 0, errors |-> 1]

\* What the completion lambda sends: the result, or the GError as it is.
MB_completion_reply(src) ==
    IF src.kind = "value" THEN ReturnValue(src) ELSE ReturnGError(src)

MB_call_finished ==
    /\ variant = "multibus"
    /\ CallFinished([r \in CallResults |-> MB_call_reply(r)],
                    [src \in SourceResults |-> MB_completion_reply(src)])

\* The SIGINT/SIGTERM source, dispatched by the main loop: g_main_loop_quit;
\* g_main_loop_run returns.
MB_on_unix_signal ==
    /\ variant = "multibus"
    /\ pc = "running"
    /\ LoopIdle
    /\ pc' = "cleanup"
    /\ UNCHANGED <<cfgVars, sigVars, propVars, subCalls, i, error, busVars, mbVars, xbVars, regVars, relVars,
                   histVars, exitVars, inv>>

\* cleanup_proxy, then main returns 0.
MB_cleanup_proxy ==
    /\ variant = "multibus"
    /\ pc = "cleanup"
    /\ ctx = "alive"
    /\ unsubCalls' = UnsubscribeList(unsubCalls, ctx_subscriptions)
    /\ sourceSubs' = {s \in sourceSubs : s.id \notin SeqRange(ctx_subscriptions)}
    /\ unregCalls' = IF registration_id > 0
                       THEN [unregCalls EXCEPT ![registration_id] = @ + 1]
                       ELSE unregCalls
    /\ targetRegs' = IF registration_id > 0
                       THEN {r \in targetRegs : r.id # registration_id}
                       ELSE targetRegs
    /\ source_bus' = "unref"
    /\ target_bus' = "unref"
    /\ ctx' = "freed"
    /\ cleanupCalls' = cleanupCalls + 1
    /\ Exit("main", 0)
    /\ UNCHANGED <<cfgVars, sigVars, propVars, subCalls, i, error, registration_id, ctx_subscriptions, xbVars,
                   nextRegId, nextSubId, regResult, histVars, inv>>

MB_Next ==
    \/ MB_setup_proxy_connect
    \/ MB_setup_proxy_introspect
    \/ MB_setup_proxy_register
    \/ MB_setup_proxy_own_name
    \/ MB_handle_method_call
    \/ MB_call_finished
    \/ MB_on_unix_signal
    \/ MB_cleanup_proxy

----------------------------------------------------------------------------
(* config: src/unnamed/part_000, lines 1-603.  One connection, bus, is     *)
(* both the source and the target endpoint; nothing is tracked and main    *)
(* never leaves g_main_loop_run.                                           *)

\* if (!bus)
CF_ConnectFailed(out) == out # "ok"

\* if (!xml) / if (!introspection_data)
CF_IntrospectFailed(out) == out # "ok"

\* main: g_bus_get_sync.
CF_main_connect ==
    /\ variant = "config"
    /\ pc = "connect"
    /\ \E out \in {"ok", "source_fail"} :
        /\ connectCalls' = [connectCalls EXCEPT !.source = @ + 1]
        /\ setupFailure' = IF out = "ok" THEN setupFailure ELSE "connect"
        /\ source_bus' = IF out = "ok" THEN "open" ELSE "null"
        /\ target_bus' = IF out = "ok" THEN "open" ELSE "null"
        /\ IF CF_ConnectFailed(out)
             THEN Exit("main", 1)
             ELSE pc' = "introspect" /\ UNCHANGED exitVars
    /\ UNCHANGED <<cfgVars, sigVars, propVars, subCalls, i, error, mbVars, xbVars, regVars, relVars,
                   introspectCalls, nameRequests, inv>>

\* main: the Introspect call and g_dbus_node_info_new_for_xml.
CF_main_introspect ==
    /\ variant = "config"
    /\ pc = "introspect"
    /\ \E out \in {"ok", "call_fail", "parse_fail"} :
        /\ introspectCalls' = introspectCalls + 1
        /\ setupFailure' = CASE out = "ok" -> setupFailure
                             [] out = "call_fail" -> "introspect"
                             [] out = "parse_fail" -> "parse"
        /\ IF CF_IntrospectFailed(out)
             THEN Exit("main", 1)
             ELSE pc' = "register" /\ UNCHANGED exitVars
    /\ i' = 0
    /\ UNCHANGED <<cfgVars, sigVars, propVars, subCalls, error, busVars, mbVars, xbVars, regVars, relVars,
                   connectCalls, nameRequests, inv>>

\* main: one iteration of the registration loop.  The ids are locals and
\* are not kept; error is freed on failure and not reset.
CF_main_register ==
    /\ variant = "config"
    /\ pc = "register"
    /\ \/ /\ interfacesNull           \* interfaces[0] read through a NULL pointer
          /\ Crash
          /\ UNCHANGED <<i, error, regVars, subCalls>>
       \/ /\ ~interfacesNull
          /\ RegisterLoopContinues(i, NumIfaces)
          /\ \E out \in RegisterOutcomes(error), failed \in SUBSET (1..interfaces[i + 1]) :
               LET ids == SubIds(interfaces[i + 1], failed, nextSubId) IN
               CASE out = "crash" ->
                      /\ Crash
                      /\ UNCHANGED <<i, error, regVars, subCalls>>
                 [] out = "fail" ->
                      /\ error' = "dangling"
                      /\ regResult' = [regResult EXCEPT ![i + 1] = "fail"]
                      /\ i' = i + 1
                      /\ UNCHANGED <<pc, exitVars, targetRegs, sourceSubs,
                                     nextRegId, nextSubId, subCalls>>
                 [] out = "ok" ->
                      /\ nextRegId' = nextRegId + 1
                      /\ targetRegs' = targetRegs \cup {[id |-> nextRegId, iface |-> i + 1]}
                      /\ regResult' = [regResult EXCEPT ![i + 1] = "ok"]
                      /\ sourceSubs' = sourceSubs \cup NewSubs(i + 1, ids)
                      /\ subCalls' = subCalls \cup SubCallsOf(i + 1, ids)
                      /\ nextSubId' = nextSubId + Cardinality(NewSubs(i + 1, ids))
                      /\ i' = i + 1
                      /\ UNCHANGED <<pc, exitVars, error>>
    /\ UNCHANGED <<cfgVars, sigVars, propVars, busVars, mbVars, xbVars, relVars, histVars, inv>>

\* subscribe_to_properties_changed, called once after the loop.
\* PropertiesChanged is recorded as signal 0 of interface 0.
CF_subscribe_to_properties_changed ==
    /\ variant = "config"
    /\ pc = "register"
    /\ ~interfacesNull
    /\ ~RegisterLoopContinues(i, NumIfaces)
    /\ \E ok \in BOOLEAN :
        IF ok
          THEN /\ sourceSubs' = sourceSubs \cup {[id |-> nextSubId, iface |-> 0, sig |-> 0]}
               /\ subCalls' = subCalls \cup {[iface |-> 0, sig |-> 0, id |-> nextSubId]}
               /\ nextSubId' = nextSubId + 1
          ELSE /\ subCalls' = subCalls \cup {[iface |-> 0, sig |-> 0, id |-> 0]}
               /\ UNCHANGED <<sourceSubs, nextSubId>>
    /\ pc' = "own_name"
    /\ UNCHANGED <<cfgVars, sigVars, propVars, i, error, busVars, mbVars, xbVars, targetRegs, nextRegId,
                   regResult, relVars, histVars, exitVars, inv>>

\* main: g_bus_own_name (its result is not looked at), then g_main_loop_run.
CF_main_own_name ==
    /\ variant = "config"
    /\ pc = "own_name"
    /\ nameRequests' = nameRequests + 1
    /\ pc' = "running"
    /\ UNCHANGED <<cfgVars, sigVars, propVars, subCalls, i, error, busVars, mbVars, xbVars, regVars, relVars,
                   connectCalls, introspectCalls, setupFailure, exitVars, inv>>

\* handle_method_call: g_dbus_connection_call(bus, config.source_bus_name,
\* config.source_object_path, interface_name, method_name, parameters, NULL,
\* G_DBUS_CALL_FLAGS_NONE, config.timeout_ms, NULL, lambda, invocation)
CF_forward_call_fixed_method(req) ==
    <<[connection |-> "bus", bus_name |-> source_bus_name,
       object_path |-> source_object_path,
       interface_name |-> req.interface_name, method_name |-> "Introspect",
       parameters |-> req.parameters, timeout_msec |-> "config.timeout_ms",
       user_data |-> req.invocation]>>
CF_forward_call(req) ==
    <<[connection |-> "bus", bus_name |-> source_bus_name,
       object_path |-> source_object_path,
       interface_name |-> req.interface_name, method_name |-> req.method_name,
       parameters |-> req.parameters, timeout_msec |-> "config.timeout_ms",
       user_data |-> req.invocation]>>

CF_handle_method_call ==
    /\ variant = "config"
    /\ HandleMethodCall([req \in Requests |-> CF_forward_call(req)])

\* if (result) return_value(inv, result)
\* else return_error_literal(inv, G_IO_ERROR, G_IO_ERROR_FAILED, message)
CF_call_reply(result) ==
    IF result = "value" THEN [values |-> 1, errors |-> 0]
    ELSE [values |-> 0, errors |-> 1]

\* What the completion lambda sends: the result, or a new error with domain
\* G_IO_ERROR, code G_IO_ERROR_FAILED and the message of the GError.
CF_completion_reply(src) ==
    IF src.kind = "value"
      THEN ReturnValue(src)
      ELSE ReturnErrorLiteral(src, "G_IO_ERROR", "G_IO_ERROR_FAILED", src.error.message)

CF_call_finished ==
    /\ variant = "config"
    /\ CallFinished([r \in CallResults |-> CF_call_reply(r)],
                    [src \in SourceResults |-> CF_completion_reply(src)])

CF_Next ==
    \/ CF_main_connect
    \/ CF_main_introspect
    \/ CF_main_register
    \/ CF_subscribe_to_properties_changed
    \/ CF_main_own_name
    \/ CF_handle_method_call
    \/ CF_call_finished

----------------------------------------------------------------------------
(* crossbus: src/unnamed/part_000, lines 604-1229.  The state is the       *)
(* process-wide proxy_state; signal_handler is installed with signal()     *)
(* before init_proxy_state and runs cleanup_proxy_state and exit(0)        *)
(* whenever SIGINT or SIGTERM is delivered, wherever main is.              *)

\* if (!connect_to_buses())
XB_ConnectFailed_ignored(out) == FALSE
XB_ConnectFailed(out) == out # "ok"

\* if (!fetch_introspection_data())
XB_IntrospectFailed(out) == out # "ok"

\* init_proxy_state: allocates proxy_state and the two hash tables.
XB_init_proxy_state ==
    /\ variant = "crossbus"
    /\ pc = "init"
    /\ proxy_state' = "alive"
    /\ registered_objects' = {}
    /\ signal_subscriptions' = {}
    /\ pc' = "connect"
    /\ UNCHANGED <<cfgVars, sigVars, propVars, subCalls, i, error, busVars, mbVars, regVars, relVars, histVars,
                   exitVars, inv>>

\* connect_to_buses: the source, then the target; no call after a failure.
XB_connect_to_buses ==
    /\ variant = "crossbus"
    /\ pc = "connect"
    /\ \E out \in {"ok", "source_fail", "target_fail"} :
        /\ connectCalls' = [source |-> connectCalls.source + 1,
                            target |-> connectCalls.target
                                         + (IF out = "source_fail" THEN 0 ELSE 1)]
        /\ setupFailure' = IF out = "ok" THEN setupFailure ELSE "connect"
        /\ source_bus' = IF out = "source_fail" THEN "null" ELSE "open"
        /\ target_bus' = IF out = "ok" THEN "open" ELSE "null"
        /\ pc' = IF XB_ConnectFailed(out) THEN "fail_cleanup" ELSE "introspect"
    /\ UNCHANGED <<cfgVars, sigVars, propVars, subCalls, i, error, mbVars, xbVars, regVars, relVars,
                   introspectCalls, nameRequests, exitVars, inv>>

\* fetch_introspection_data: the Introspect call and the parse.
XB_fetch_introspection_data ==
    /\ variant = "crossbus"
    /\ pc = "introspect"
    /\ \E out \in {"ok", "call_fail", "parse_fail"} :
        /\ introspectCalls' = introspectCalls + 1
        /\ setupFailure' = CASE out = "ok" -> setupFailure
                             [] out = "call_fail" -> "introspect"
                             [] out = "parse_fail" -> "parse"
        /\ pc' = IF XB_IntrospectFailed(out) THEN "fail_cleanup" ELSE "setup"
    /\ UNCHANGED <<cfgVars, sigVars, propVars, subCalls, i, error, busVars, mbVars, xbVars, regVars, relVars,
                   connectCalls, nameRequests, exitVars, inv>>

\* setup_proxy_interfaces: if (!proxy_state->introspection_data->interfaces)
XB_setup_proxy_interfaces_begin ==
    /\ variant = "crossbus"
    /\ pc = "setup"
    /\ IF interfacesNull
         THEN pc' = "fail_cleanup" /\ setupFailure' = "interfaces"
         ELSE pc' = "register" /\ UNCHANGED setupFailure
    /\ i' = 0
    /\ UNCHANGED <<cfgVars, sigVars, propVars, subCalls, error, busVars, mbVars, xbVars, regVars, relVars,
                   connectCalls, introspectCalls, nameRequests, exitVars, inv>>

\* setup_proxy_interfaces: one iteration of the registration loop.  A failed
\* registration returns FALSE; every id, a subscription id of 0 included, is
\* inserted in its table.  error is a fresh NULL local in each iteration.
XB_setup_proxy_interfaces_register ==
    /\ variant = "crossbus"
    /\ pc = "register"
    /\ RegisterLoopContinues(i, NumIfaces)
    /\ \E out \in RegisterOutcomes("null"), failed \in SUBSET (1..interfaces[i + 1]) :
         LET ids == SubIds(interfaces[i + 1], failed, nextSubId) IN
         IF out = "fail"
           THEN /\ regResult' = [regResult EXCEPT ![i + 1] = "fail"]
                /\ setupFailure' = "register"
                /\ pc' = "fail_cleanup"
                /\ UNCHANGED <<i, xbVars, targetRegs, sourceSubs, nextRegId, nextSubId,
                               subCalls>>
           ELSE /\ nextRegId' = nextRegId + 1
                /\ targetRegs' = targetRegs \cup {[id |-> nextRegId, iface |-> i + 1]}
                /\ regResult' = [regResult EXCEPT ![i + 1] = "ok"]
                /\ registered_objects' = registered_objects \cup {nextRegId}
                /\ signal_subscriptions' = signal_subscriptions \cup SeqRange(ids)
                /\ sourceSubs' = sourceSubs \cup NewSubs(i + 1, ids)
                /\ subCalls' = subCalls \cup SubCallsOf(i + 1, ids)
                /\ nextSubId' = nextSubId + Cardinality(NewSubs(i + 1, ids))
                /\ i' = i + 1
                /\ UNCHANGED <<pc, setupFailure, proxy_state>>
    /\ UNCHANGED <<cfgVars, sigVars, propVars, error, busVars, mbVars, relVars, connectCalls,
                   introspectCalls, nameRequests, exitVars, inv>>

\* setup_proxy_interfaces: the PropertiesChanged subscription after the loop;
\* its id is inserted whatever it is.
XB_setup_proxy_interfaces_props ==
    /\ variant = "crossbus"
    /\ pc = "register"
    /\ ~RegisterLoopContinues(i, NumIfaces)
    /\ \E ok \in BOOLEAN :
        IF ok
          THEN /\ sourceSubs' = sourceSubs \cup {[id |-> nextSubId, iface |-> 0, sig |-> 0]}
               /\ subCalls' = subCalls \cup {[iface |-> 0, sig |-> 0, id |-> nextSubId]}
               /\ nextSubId' = nextSubId + 1
               /\ signal_subscriptions' = signal_subscriptions \cup {nextSubId}
          ELSE /\ signal_subscriptions' = signal_subscriptions \cup {0}
               /\ subCalls' = subCalls \cup {[iface |-> 0, sig |-> 0, id |-> 0]}
               /\ UNCHANGED <<sourceSubs, nextSubId>>
    /\ pc' = "own_name"
    /\ UNCHANGED <<cfgVars, sigVars, propVars, i, error, busVars, mbVars, proxy_state, registered_objects,
                   targetRegs, nextRegId, regResult, relVars, histVars, exitVars, inv>>

\* acquire_bus_name: g_bus_own_name_on_connection; owner id 0 is a failure.
XB_acquire_bus_name ==
    /\ variant = "crossbus"
    /\ pc = "own_name"
    /\ \E ok \in BOOLEAN :
        IF ok
          THEN /\ nameRequests' = nameRequests + 1
               /\ pc' = "running"
               /\ UNCHANGED setupFailure
          ELSE /\ setupFailure' = "name"
               /\ pc' = "fail_cleanup"
               /\ UNCHANGED nameRequests
    /\ UNCHANGED <<cfgVars, sigVars, propVars, subCalls, i, error, busVars, mbVars, xbVars, regVars, relVars,
                   connectCalls, introspectCalls, exitVars, inv>>

\* cleanup_proxy_state: if (!proxy_state) return;
XB_CleanupReturnsEarly_never(ps) == FALSE
XB_CleanupReturnsEarly_always(ps) == TRUE
XB_CleanupReturnsEarly(ps) == ps = "null"

\* What cleanup_proxy_state releases when it walks the two tables.
XB_ReleaseAll ==
    /\ unregCalls' = ReleaseKeys(unregCalls, registered_objects)
    /\ targetRegs' = {r \in targetRegs : r.id \notin registered_objects}
    /\ unsubCalls' = ReleaseKeys(unsubCalls, signal_subscriptions)
    /\ sourceSubs' = {s \in sourceSubs : s.id \notin signal_subscriptions}
    /\ source_bus' = IF source_bus = "open" THEN "unref" ELSE source_bus
    /\ target_bus' = IF target_bus = "open" THEN "unref" ELSE target_bus

\* cleanup_proxy_state called by main on a failed setup step, up to the last
\* g_object_unref: the tables are destroyed, the fields still point to them.
XB_cleanup_proxy_state_release ==
    /\ variant = "crossbus"
    /\ pc = "fail_cleanup"
    /\ ~XB_CleanupReturnsEarly(proxy_state)
    /\ proxy_state = "alive"
    /\ XB_ReleaseAll
    /\ proxy_state' = "released"
    /\ cleanupCalls' = cleanupCalls + 1
    /\ pc' = "fail_free"
    /\ UNCHANGED <<cfgVars, sigVars, propVars, subCalls, i, error, mbVars, registered_objects, signal_subscriptions,
                   nextRegId, nextSubId, regResult, histVars, exitVars, inv>>

\* cleanup_proxy_state: g_free(proxy_state); proxy_state = NULL.
XB_cleanup_proxy_state_free ==
    /\ variant = "crossbus"
    /\ pc = "fail_free"
    /\ proxy_state' = "null"
    /\ registered_objects' = {}
    /\ signal_subscriptions' = {}
    /\ pc' = "fail_return"
    /\ UNCHANGED <<cfgVars, sigVars, propVars, subCalls, i, error, busVars, mbVars, regVars, relVars, histVars,
                   exitVars, inv>>

\* main: return 1 after the cleanup of a failed setup step.
XB_main_return ==
    /\ variant = "crossbus"
    /\ pc = "fail_return"
    /\ Exit("main", 1)
    /\ UNCHANGED <<cfgVars, sigVars, propVars, subCalls, i, error, busVars, mbVars, xbVars, regVars, relVars,
                   histVars, inv>>

\* signal_handler: cleanup_proxy_state(); exit(0).  With proxy_state NULL
\* the cleanup returns at once.  If the signal interrupts main inside
\* cleanup_proxy_state, after the tables were destroyed and before
\* proxy_state was reset, the handler walks freed tables: it may release the
\* same ids again or fault.
XB_signal_handler ==
    /\ variant = "crossbus"
    /\ pc \notin {"exited", "crashed"}
    /\ cleanupCalls' = cleanupCalls + 1
    /\ IF XB_CleanupReturnsEarly(proxy_state)
         THEN /\ Exit("signal", 0)
              /\ UNCHANGED <<busVars, xbVars, targetRegs, sourceSubs, unregCalls,
                             unsubCalls>>
         ELSE \/ /\ proxy_state = "alive"
                 /\ XB_ReleaseAll
                 /\ proxy_state' = "null"
                 /\ registered_objects' = {}
                 /\ signal_subscriptions' = {}
                 /\ Exit("signal", 0)
              \/ /\ proxy_state = "released"
                 /\ XB_ReleaseAll
                 /\ proxy_state' = "null"
                 /\ registered_objects' = {}
                 /\ signal_subscriptions' = {}
                 /\ Exit("signal", 0)
              \/ /\ proxy_state # "alive"   \* freed tables or a NULL proxy_state
                 /\ Crash
                 /\ UNCHANGED <<busVars, xbVars, targetRegs, sourceSubs, unregCalls,
                                unsubCalls>>
    /\ UNCHANGED <<cfgVars, sigVars, propVars, subCalls, i, error, mbVars, nextRegId, nextSubId, regResult,
                   histVars, inv>>

\* handle_method_call: g_dbus_connection_call(proxy_state->source_bus,
\* proxy_state->config.source_bus_name, proxy_state->config.source_object_path,
\* interface_name, method_name, parameters, NULL, G_DBUS_CALL_FLAGS_NONE, -1,
\* NULL, lambda, invocation)
XB_forward_call_first_invocation(req) ==
    <<[connection |-> "source_bus", bus_name |-> source_bus_name,
       object_path |-> source_object_path,
       interface_name |-> req.interface_name, method_name |-> req.method_name,
       parameters |-> req.parameters, timeout_msec |-> "-1",
       user_data |-> 1]>>
XB_forward_call(req) ==
    <<[connection |-> "source_bus", bus_name |-> source_bus_name,
       object_path |-> source_object_path,
       interface_name |-> req.interface_name, method_name |-> req.method_name,
       parameters |-> req.parameters, timeout_msec |-> "-1",
       user_data |-> req.invocation]>>

XB_handle_method_call ==
    /\ variant = "crossbus"
    /\ HandleMethodCall([req \in Requests |-> XB_forward_call(req)])

\* if (result) return_value(inv, result) else return_gerror(inv, error)
XB_call_reply(result) ==
    IF result = "value" THEN [values |-> 1, errors |-> 0]
    ELSE [values |-> 0, errors |-> 1]

\* What the completion lambda sends: the result, or the GError as it is.
XB_completion_reply_constant(src) ==
    IF src.kind = "value"
      THEN [ReturnValue(src) EXCEPT !.value = <<"hi", 0>>]
      ELSE ReturnGError(src)
XB_completion_reply(src) ==
    IF src.kind = "value" THEN ReturnValue(src) ELSE ReturnGError(src)

XB_call_finished ==
    /\ variant = "crossbus"
    /\ CallFinished([r \in CallResults |-> XB_call_reply(r)],
                    [src \in SourceResults |-> XB_completion_reply(src)])

XB_Next ==
    \/ XB_init_proxy_state
    \/ XB_connect_to_buses
    \/ XB_fetch_introspection_data
    \/ XB_setup_proxy_interfaces_begin
    \/ XB_setup_proxy_interfaces_register
    \/ XB_setup_proxy_interfaces_props
    \/ XB_acquire_bus_name
    \/ XB_cleanup_proxy_state_release
    \/ XB_cleanup_proxy_state_free
    \/ XB_main_return
    \/ XB_signal_handler
    \/ XB_handle_method_call
    \/ XB_call_finished

Next == MB_Next \/ CF_Next \/ XB_Next

Spec == Init /\ [][Next]_vars

----------------------------------------------------------------------------
(* Signal relay and property relay: on_signal_received,                    *)
(* on_properties_changed, handle_get_property, handle_set_property.        *)

otherVars == <<subCalls, pc, i, error, busVars, mbVars, xbVars, regVars, relVars, histVars,
               exitVars, inv>>

\* The interface and member a subscription matches on.  Interface k of the
\* document is named k and its j-th signal j; PropertiesChanged of
\* org.freedesktop.DBus.Properties is signal 0 of interface 0, whether the
\* subscription is the additional one or the one made for the signal the
\* document declares in that interface.
SignalName(s) ==
    IF s.iface # 0 /\ s.iface = propsAt
      THEN [iface |-> 0, sig |-> 0]
      ELSE [iface |-> s.iface, sig |-> s.sig]

\* What a signal callback receives for the n-th delivery of a run, made for
\* subscription s: the subscription matches on the source service name, the
\* interface, the signal name and the object path.
DeliveredSignal(s, n) ==
    [sender_name |-> source_bus_name,
     object_path |-> source_object_path,
     interface_name |-> SignalName(s).iface,
     signal_name |-> SignalName(s).sig,
     parameters |-> <<"changed", n>>]

Signals ==
    {DeliveredSignal([iface |-> f, sig |-> g], n) :
        f \in 0..MaxIfaces, g \in 0..MaxSigs, n \in 1..MaxSignals}

\* g_dbus_connection_emit_signal(connection, destination_bus_name,
\* object_path, interface_name, signal_name, parameters, &error)
EmitSignal(connection, destination, path, iface, name, parameters) ==
    [connection |-> connection, destination_bus_name |-> destination,
     object_path |-> path, interface_name |-> iface, signal_name |-> name,
     parameters |-> parameters]

\* The source emits a signal and the main loop dispatches the callback of
\* one live subscription of subs that matches it; GDBus schedules one
\* callback for every other subscription the same emission matches, and the
\* loop runs those before the callbacks of a later emission (second
\* disjunct).  emission[sig] is the sequence of g_dbus_connection_emit_signal calls the
\* callback makes before it returns.  The call may fail (the connection is
\* closed); the callback then reports the error, frees it and returns.
SignalDelivered(subs, emission) ==
    /\ pc = "running"
    /\ LoopIdle
    /\ Len(received) < MaxSignals
    /\ \E s \in subs, success \in BOOLEAN :
        /\ \/ /\ queued = {}
              /\ LET sig == DeliveredSignal(s, Len(received) + 1)
                     same == {t \in sourceSubs : SignalName(t) = SignalName(s)}
                 IN  /\ received' = Append(received, sig)
                     /\ emitted' = emitted \o emission[sig]
                     /\ queued' = {[id |-> t.id, signal |-> sig] : t \in same \ {s}}
           \/ \E q \in queued :
                /\ q.id = s.id
                /\ received' = Append(received, q.signal)
                /\ emitted' = emitted \o emission[q.signal]
                /\ queued' = queued \ {q}
        /\ emitResult' = IF success THEN "ok" ELSE "failed"
    /\ UNCHANGED <<cfgVars, propVars, otherVars>>

\* g_dbus_connection_call_sync(connection, bus name, object path,
\* "org.freedesktop.DBus.Properties", method, parameters, reply_type,
\* G_DBUS_CALL_FLAGS_NONE, timeout, NULL, error)
PropertiesCall(connection, method, parameters, reply_type, timeout) ==
    [connection |-> connection, bus_name |-> source_bus_name,
     object_path |-> source_object_path,
     interface_name |-> "org.freedesktop.DBus.Properties",
     method_name |-> method, parameters |-> parameters,
     reply_type |-> reply_type, timeout_msec |-> timeout]

\* What g_dbus_connection_call_sync returns: the reply body, or NULL with
\* the GError of the source (or of the timeout) stored in *error.
Answer(result, body) ==
    [kind |-> result,
     body |-> IF result = "value" THEN body ELSE NullVariant,
     error |-> CASE result = "value" -> NoError
                 [] result = "error" -> SourceError
                 [] result = "timeout" -> TimeoutError]

Answers ==
    {Answer(r, b) : r \in CallResults,
                    b \in {EmptyTuple} \cup {Wrap(PlainValue(x)) : x \in PropertyValues}}

\* GDBus dispatches a property Get of a registered interface to
\* get_property.  The handler issues the synchronous call and blocks in it
\* (first step); when the answer of the source comes, its value in a
\* variant, the handler returns what return[ans] says (second step).
PropertyGet(call, return) ==
    /\ pc = "running"
    /\ \/ /\ LoopIdle
          /\ \E r \in targetRegs :
               propLog' = [op |-> "get", interface_name |-> r.iface,
                           property_name |-> "Prop", value |-> NullVariant,
                           call |-> <<call[r.iface]>>, answer |-> <<>>,
                           ret |-> NullVariant, done |-> FALSE, error |-> NoError]
       \/ /\ LoopBlocked
          /\ propLog.op = "get"
          /\ \E result \in CallResults :
               LET ans == Answer(result, Wrap(PlainValue(srcProp))) IN
               propLog' = [propLog EXCEPT !.answer = <<ans>>,
                                          !.ret = return[ans].ret,
                                          !.done = return[ans].done,
                                          !.error = return[ans].error]
    /\ UNCHANGED srcProp
    /\ UNCHANGED <<cfgVars, sigVars, otherVars>>

\* GDBus dispatches a property Set to set_property; the two steps are those
\* of Get.  The source stores the content of the variant it is sent when it
\* accepts the call.
PropertySet(call, return) ==
    /\ pc = "running"
    /\ \/ /\ LoopIdle
          /\ \E r \in targetRegs, x \in PropertyValues :
               propLog' = [op |-> "set", interface_name |-> r.iface,
                           property_name |-> "Prop", value |-> PlainValue(x),
                           call |-> <<call[<<r.iface, x>>]>>, answer |-> <<>>,
                           ret |-> NullVariant, done |-> FALSE, error |-> NoError]
          /\ UNCHANGED srcProp
       \/ /\ LoopBlocked
          /\ propLog.op = "set"
          /\ \E result \in CallResults :
               LET c == propLog.call[1]
                   ans == Answer(result, EmptyTuple)
               IN
               /\ propLog' = [propLog EXCEPT !.answer = <<ans>>,
                                             !.done = return[ans].done,
                                             !.error = return[ans].error]
               /\ srcProp' = IF result = "value"
                                THEN Unwrap(c.parameters[3]).data
                                ELSE srcProp
    /\ UNCHANGED <<cfgVars, sigVars, otherVars>>

\* handle_get_property: if (result) { g_variant_get(result, "(v)", &value);
\* return value; } return NULL;
GetPropertyReturn_wrapped(ans) ==
    IF ans.kind = "value"
      THEN [ret |-> ans.body, done |-> TRUE, error |-> ans.error]
      ELSE [ret |-> NullVariant, done |-> FALSE, error |-> ans.error]
GetPropertyReturn(ans) ==
    IF ans.kind = "value"
      THEN [ret |-> Unwrap(ans.body), done |-> TRUE, error |-> ans.error]
      ELSE [ret |-> NullVariant, done |-> FALSE, error |-> ans.error]

\* handle_set_property: if (result) return TRUE; return FALSE;
SetPropertyReturn_always_true(ans) ==
    [ret |-> NullVariant, done |-> TRUE, error |-> ans.error]
SetPropertyReturn(ans) ==
    [ret |-> NullVariant, done |-> ans.kind = "value", error |-> ans.error]

\* on_signal_received: g_dbus_connection_emit_signal(ctx->target_bus, NULL,
\* ctx->source_object_path, interface_name, signal_name, parameters, &error)
MB_on_signal_received_emit_twice(sig) ==
    LET e == EmitSignal("target_bus", "NULL", source_object_path, sig.interface_name,
                        sig.signal_name, sig.parameters)
    IN  <<e, e>>
MB_on_signal_received_emit(sig) ==
    <<EmitSignal("target_bus", "NULL", source_object_path, sig.interface_name,
                 sig.signal_name, sig.parameters)>>

\* The callback of every subscription of the program.
MB_on_signal_received ==
    /\ variant = "multibus"
    /\ ctx = "alive"
    /\ SignalDelivered(sourceSubs, [sig \in Signals |-> MB_on_signal_received_emit(sig)])

\* handle_get_property: Get(interface_name, property_name), reply type (v).
MB_get_property_call(f) ==
    PropertiesCall("source_bus", "Get", <<f, "Prop">>, "(v)", "-1")

MB_handle_get_property ==
    /\ variant = "multibus"
    /\ ctx = "alive"
    /\ PropertyGet([f \in 1..MaxIfaces |-> MB_get_property_call(f)],
                   [ans \in Answers |-> GetPropertyReturn(ans)])

\* handle_set_property: Set(interface_name, property_name, value) built with
\* g_variant_new("(ssv)", ...): the value goes into a variant.
MB_set_property_call(f, x) ==
    PropertiesCall("source_bus", "Set", <<f, "Prop", Wrap(PlainValue(x))>>, "NULL", "-1")

MB_handle_set_property ==
    /\ variant = "multibus"
    /\ ctx = "alive"
    /\ PropertySet([a \in (1..MaxIfaces) \X PropertyValues |->
                      MB_set_property_call(a[1], a[2])],
                   [ans \in Answers |-> SetPropertyReturn(ans)])

\* on_signal_received: g_dbus_connection_emit_signal(bus, NULL,
\* config.source_object_path, interface_name, signal_name, parameters, &error)
CF_on_signal_received_emit_deferred(sig) == <<>>
CF_on_signal_received_emit(sig) ==
    <<EmitSignal("bus", "NULL", source_object_path, sig.interface_name,
                 sig.signal_name, sig.parameters)>>

\* The callback of every subscription of the program.
CF_on_signal_received ==
    /\ variant = "config"
    /\ SignalDelivered(sourceSubs, [sig \in Signals |-> CF_on_signal_received_emit(sig)])

\* handle_get_property: Get(interface_name, property_name), reply type (v).
CF_get_property_call(f) ==
    PropertiesCall("bus", "Get", <<f, "Prop">>, "(v)", "config.timeout_ms")

CF_handle_get_property ==
    /\ variant = "config"
    /\ PropertyGet([f \in 1..MaxIfaces |-> CF_get_property_call(f)],
                   [ans \in Answers |-> GetPropertyReturn(ans)])

\* handle_set_property: Set(interface_name, property_name, value) built with
\* g_variant_new("(ssv)", ...): the value goes into a variant.
CF_set_property_call(f, x) ==
    PropertiesCall("bus", "Set", <<f, "Prop", Wrap(PlainValue(x))>>, "NULL", "config.timeout_ms")

CF_handle_set_property ==
    /\ variant = "config"
    /\ PropertySet([a \in (1..MaxIfaces) \X PropertyValues |->
                      CF_set_property_call(a[1], a[2])],
                   [ans \in Answers |-> SetPropertyReturn(ans)])

\* on_signal_received: g_dbus_connection_emit_signal(proxy_state->target_bus, NULL,
\* proxy_state->config.source_object_path, interface_name, signal_name, parameters, &error)
XB_on_signal_received_emit_to_sender(sig) ==
    <<EmitSignal("target_bus", sig.sender_name, source_object_path, sig.interface_name,
                 sig.signal_name, sig.parameters)>>
XB_on_signal_received_emit(sig) ==
    <<EmitSignal("target_bus", "NULL", source_object_path, sig.interface_name,
                 sig.signal_name, sig.parameters)>>

\* The callback of the subscriptions made for the declared signals.
XB_on_signal_received ==
    /\ variant = "crossbus"
    /\ proxy_state = "alive"
    /\ SignalDelivered({s \in sourceSubs : s.iface # 0},
                       [sig \in Signals |-> XB_on_signal_received_emit(sig)])

\* on_properties_changed, the callback of the PropertiesChanged subscription:
\* reads the interface name in the payload, then calls on_signal_received
\* with its own arguments.
XB_on_properties_changed ==
    /\ variant = "crossbus"
    /\ proxy_state = "alive"
    /\ SignalDelivered({s \in sourceSubs : s.iface = 0},
                       [sig \in Signals |-> XB_on_signal_received_emit(sig)])

\* handle_get_property: Get(interface_name, property_name), reply type (v).
XB_get_property_call(f) ==
    PropertiesCall("source_bus", "Get", <<f, "Prop">>, "(v)", "-1")

XB_handle_get_property ==
    /\ variant = "crossbus"
    /\ proxy_state = "alive"
    /\ PropertyGet([f \in 1..MaxIfaces |-> XB_get_property_call(f)],
                   [ans \in Answers |-> GetPropertyReturn(ans)])

\* handle_set_property: Set(interface_name, property_name, value) built with
\* g_variant_new("(ssv)", ...): the value goes into a variant.
XB_set_property_call(f, x) ==
    PropertiesCall("source_bus", "Set", <<f, "Prop", Wrap(PlainValue(x))>>, "NULL", "-1")

XB_handle_set_property ==
    /\ variant = "crossbus"
    /\ proxy_state = "alive"
    /\ PropertySet([a \in (1..MaxIfaces) \X PropertyValues |->
                      XB_set_property_call(a[1], a[2])],
                   [ans \in Answers |-> SetPropertyReturn(ans)])

\* The source service of the relay runs declares one interface with one
\* signal.
RelayDocs == {<<1>>}

RelayInit ==
    /\ Init
    /\ interfaces \in RelayDocs

MB_RelayNext ==
    \/ MB_on_signal_received
    \/ MB_handle_get_property
    \/ MB_handle_set_property

CF_RelayNext ==
    \/ CF_on_signal_received
    \/ CF_handle_get_property
    \/ CF_handle_set_property

XB_RelayNext ==
    \/ XB_on_signal_received
    \/ XB_on_properties_changed
    \/ XB_handle_get_property
    \/ XB_handle_set_property

RelayNext == Next \/ MB_RelayNext \/ CF_RelayNext \/ XB_RelayNext

\* The programs with every handler, run against the source service of
\* RelayDocs.
RelaySpec == RelayInit /\ [][RelayNext]_vars

\* A source object whose document lists org.freedesktop.DBus.Properties,
\* with its signal PropertiesChanged, as its one interface.
NotifyDocs == {<<1>>}

NotifyInit ==
    /\ variant \in Variants
    /\ interfaces \in NotifyDocs
    /\ interfacesNull = FALSE
    /\ propsAt = 1
    /\ proxy_bus_name = "org.example.Proxy"
    /\ target_address = "session"
    /\ nameOwner = "source"
    /\ Start

\* The programs configured with the source service name as facade name and
\* the source bus as target bus.
SameBusInit ==
    /\ variant \in Variants
    /\ interfaces \in RelayDocs
    /\ interfacesNull = FALSE
    /\ propsAt = 0
    /\ proxy_bus_name = source_bus_name
    /\ target_address = source_address
    /\ nameOwner = "source"
    /\ Start

\* The source service leaves the bus (it exits or restarts) while the proxy
\* runs: the bus gives the name to the first connection in its queue.
SourceServiceExits ==
    /\ pc = "running"
    /\ nameOwner = "source"
    /\ nameOwner' = IF FacadeQueuedForSourceName THEN "proxy" ELSE "none"
    /\ UNCHANGED <<variant, interfaces, interfacesNull, propsAt, proxy_bus_name,
                   target_address, sigVars, propVars, otherVars>>

SameBusNext == RelayNext \/ SourceServiceExits

SameBusSpec == SameBusInit /\ [][SameBusNext]_vars

\* The programs with every handler, run against the source object of
\* NotifyDocs.
NotifySpec == NotifyInit /\ [][RelayNext]_vars

----------------------------------------------------------------------------
(* The resource ledger of a context, as the teardown function reads it.    *)

\* Registration ids the context holds: ctx->registration_id (one slot,
\* 0 = none) or the keys of proxy_state->registered_objects.
TrackedRegs ==
    CASE variant = "multibus" ->
           IF ctx = "alive" /\ registration_id > 0 THEN {registration_id} ELSE {}
      [] variant = "crossbus" ->
           IF proxy_state = "alive" THEN registered_objects ELSE {}
      [] OTHER -> {}

\* Subscription ids the context holds: the elements of
\* ctx->signal_subscriptions or the keys of proxy_state->signal_subscriptions.
TrackedSubs ==
    CASE variant = "multibus" ->
           IF ctx = "alive" THEN SeqRange(ctx_subscriptions) ELSE {}
      [] variant = "crossbus" ->
           IF proxy_state = "alive" THEN signal_subscriptions ELSE {}
      [] OTHER -> {}

LiveRegIds == {r.id : r \in targetRegs}

LiveSubIds == {s.id : s \in sourceSubs}

\* main is past the registration loop and the setup has not been abandoned.
RegistrationDone ==
    \/ pc \in {"own_name", "running", "cleanup"}
    \/ pc = "register" /\ ~interfacesNull /\ i >= NumIfaces

\* The teardown function has run to its end at least once.
TeardownCompleted ==
    /\ cleanupCalls >= 1
    /\ variant = "multibus" => ctx = "freed"
    /\ variant = "crossbus" => proxy_state = "null"

----------------------------------------------------------------------------
(* Claims.                                                                 *)

\* C1: an invocation is never answered more than once and never with both a
\* value and an error: once its completion callback has run it has exactly
\* one reply, a value if the source returned a result and an error otherwise;
\* before that it has none.
C1_ReplyExactlyOneKind ==
    \A k \in 1..MaxCalls :
        /\ inv[k].values + inv[k].errors <= 1
        /\ inv[k].st # "replied" => inv[k].values + inv[k].errors = 0
        /\ inv[k].st = "replied" =>
             /\ inv[k].result = "value" => inv[k].values = 1 /\ inv[k].errors = 0
             /\ inv[k].result # "value" => inv[k].values = 0 /\ inv[k].errors = 1

C1_Witness ==
    /\ inv[1].st = "replied" /\ inv[1].result = "value" /\ inv[1].values = 1
    /\ inv[2].st = "replied" /\ inv[2].result = "timeout" /\ inv[2].errors = 1

\* C2: every accepted invocation eventually receives a reply, also when a
\* stop or termination signal arrives while the call is in flight.  As a
\* property of finite runs: the process never ends with an accepted
\* invocation still unanswered.
C2_NoInvocationLeftUnanswered ==
    pc = "exited" => \A k \in 1..MaxCalls : inv[k].st # "pending"

\* C3: after teardown every registration setup created on the target has been
\* unregistered and every subscription it created on the source has been
\* unsubscribed.
C3_TeardownReleasesEverything ==
    (pc = "exited" /\ cleanupCalls >= 1) => (targetRegs = {} /\ sourceSubs = {})

\* C4: from the end of setup until teardown begins, the recorded registration
\* and subscription ids are exactly the ids of the live registrations and
\* subscriptions setup created (0, the value of a refused call, is no id).
C4_LedgerEqualsLiveResources ==
    (variant \in {"multibus", "crossbus"} /\ pc = "running") =>
        (TrackedRegs \ {0} = LiveRegIds /\ TrackedSubs \ {0} = LiveSubIds)

\* C5: after the registration phase the number of live registrations equals
\* the number of introspected interfaces whose registration did not fail,
\* there is at most one registration per interface, and the count does not
\* exceed the number of interfaces.
C5_RegistrationCount ==
    RegistrationDone =>
        /\ Cardinality(targetRegs)
             = Cardinality({k \in 1..NumIfaces : regResult[k] # "fail"})
        /\ \A r1, r2 \in targetRegs : r1.iface = r2.iface => r1 = r2
        /\ Cardinality(targetRegs) <= NumIfaces

C5_Witness ==
    /\ variant = "multibus"
    /\ pc = "running"
    /\ regResult = <<"ok", "fail">>
    /\ Cardinality(targetRegs) = 1

\* C6: a failed registration of one interface does not abort setup: main does
\* not take the failure path, the interfaces registered before stay
\* registered, and once the loop is over every interface has been attempted.
C6_RegistrationFailureTolerated ==
    (\E k \in 1..NumIfaces : regResult[k] = "fail") =>
        /\ setupFailure # "register"
        /\ pc \notin {"fail_cleanup", "fail_free", "fail_return"}
        /\ exited = "no" =>
             \A k \in 1..NumIfaces :
                 regResult[k] = "ok" => \E r \in targetRegs : r.iface = k
        /\ pc \in {"own_name", "running"} =>
             \A k \in 1..NumIfaces : regResult[k] # "none"

C10_EmptyInterfaceListIsError ==
    NumIfaces = 0 =>
        /\ pc \notin {"own_name", "running"}
        /\ nameRequests = 0

\* C11: when the forwarded call fails on the source side, the error sent to
\* the invocation has the domain, the code and the message of the error the
\* source returned.
C11_SourceErrorPropagatedVerbatim ==
    \A k \in 1..MaxCalls :
        (inv[k].st = "replied" /\ inv[k].result = "error") =>
            /\ Len(inv[k].reply) = 1
            /\ inv[k].reply[1].kind = "error"
            /\ inv[k].reply[1].error = inv[k].src[1].error

\* C12: when the forwarded call succeeds, the value sent to the invocation is
\* the value the source returned, unmodified; the source echoes the
\* parameters, so Echo("hi") through the facade returns "hi".
C12_ValueReturnedUnmodified ==
    \A k \in 1..MaxCalls :
        (inv[k].st = "replied" /\ inv[k].result = "value") =>
            /\ Len(inv[k].reply) = 1
            /\ inv[k].reply[1].kind = "value"
            /\ inv[k].reply[1].value = inv[k].src[1].value
            /\ inv[k].reply[1].value = <<"hi", k>>

C12_Witness ==
    /\ variant = "crossbus"
    /\ inv[2].st = "replied"
    /\ inv[2].result = "value"
    /\ inv[2].reply = <<[kind |-> "value", value |-> <<"hi", 2>>, error |-> NoError,
                         origin |-> 2]>>

\* C13: the outbound call of an invocation has the interface name, the method
\* name and the parameters of the invocation and is addressed to the
\* configured source service name and object path on the source connection.
C13_OutboundCallMatchesInvocation ==
    \A k \in 1..MaxCalls :
        inv[k].st = "pending" =>
            /\ Len(inv[k].req) = 1
            /\ Len(inv[k].out) >= 1
            /\ \A j \in 1..Len(inv[k].out) :
                 /\ inv[k].out[j].interface_name = inv[k].req[1].interface_name
                 /\ inv[k].out[j].method_name = inv[k].req[1].method_name
                 /\ inv[k].out[j].parameters = inv[k].req[1].parameters
                 /\ inv[k].out[j].bus_name = source_bus_name
                 /\ inv[k].out[j].object_path = source_object_path
                 /\ inv[k].out[j].connection = SourceConnection

C13_Witness ==
    /\ variant = "config"
    /\ inv[1].st = "pending"
    /\ inv[2].st = "pending"
    /\ inv[2].req[1].interface_name = 2
    /\ inv[2].out[1].interface_name = 2
    /\ inv[2].out[1].method_name = "Echo"
    /\ inv[2].out[1].parameters = <<"hi", 2>>

\* C14: exactly one outbound call is issued for each invocation, and none is
\* issued again after the call has failed or timed out.
C14_ExactlyOneOutboundCall ==
    \A k \in 1..MaxCalls :
        /\ inv[k].issued = (IF inv[k].st = "idle" THEN 0 ELSE 1)
        /\ Len(inv[k].out) = (IF inv[k].st = "pending" THEN 1 ELSE 0)

C14_Witness ==
    /\ variant = "multibus"
    /\ inv[1].st = "replied" /\ inv[1].result = "timeout" /\ inv[1].issued = 1
    /\ inv[2].st = "replied" /\ inv[2].result = "error" /\ inv[2].issued = 1

\* C15: when the outbound call times out, the invocation is answered with a
\* timeout error and no pending call of that invocation remains.
C15_TimeoutAnsweredWithTimeoutError ==
    \A k \in 1..MaxCalls :
        inv[k].result = "timeout" =>
            /\ inv[k].st = "replied"
            /\ inv[k].out = <<>>
            /\ Len(inv[k].reply) = 1
            /\ inv[k].reply[1].kind = "error"
            /\ inv[k].reply[1].error.domain = TimeoutError.domain
            /\ inv[k].reply[1].error.code = TimeoutError.code

\* C16: whatever the order in which the source completes the calls in flight,
\* every reply an invocation receives is the result of its own call, and a
\* completed call has answered its own invocation.
C16_ReplyReachesOwnInvocation ==
    \A k \in 1..MaxCalls :
        /\ \A j \in 1..Len(inv[k].reply) : inv[k].reply[j].origin = k
        /\ inv[k].st = "replied" => Len(inv[k].reply) = 1
        /\ inv[k].st # "replied" => inv[k].reply = <<>>

C16_Witness ==
    /\ variant = "crossbus"
    /\ inv[1].st = "pending"
    /\ inv[2].st = "replied"
    /\ inv[2].reply[1].origin = 2
    /\ inv[1].reply = <<>>

\* C17: property round trip.  A successful Get through the facade returns
\* the value the source holds, itself and not wrapped in a variant; a
\* successful Set of V through the facade leaves V at the source.  propLog
\* is the access handled last and only a Set changes the value of the
\* source, so a Get that follows a Set of V returns V.
C17_PropertyRoundTrip ==
    /\ (propLog.op = "get" /\ propLog.done) =>
          /\ propLog.ret = PlainValue(srcProp)
          /\ propLog.ret.depth = 0
    /\ (propLog.op = "set" /\ propLog.done) =>
          propLog.value = PlainValue(srcProp)

C17_Witness ==
    /\ variant = "multibus"
    /\ propLog.op = "get"
    /\ propLog.done
    /\ propLog.ret = PlainValue("b")
    /\ srcProp = "b"

\* C18: when the source rejects a property Get or Set (or the call times
\* out), the handler reports failure, Get with no value and Set with FALSE,
\* the error it hands back is the error of the call, unchanged, and the step
\* changes nothing else: not the value of the source, not the context.
C18_PropertyFailureSurfaced ==
    [][(propLog' # propLog /\ Len(propLog'.answer) = 1
          /\ propLog'.answer[1].kind # "value") =>
          /\ ~propLog'.done
          /\ propLog'.ret = NullVariant
          /\ propLog'.error = propLog'.answer[1].error
          /\ propLog'.error # NoError
          /\ UNCHANGED <<srcProp, cfgVars, sigVars, otherVars>>
      ]_vars

C18_Witness ==
    /\ variant = "crossbus"
    /\ propLog.op = "set"
    /\ propLog.value = PlainValue("b")
    /\ Len(propLog.answer) = 1
    /\ propLog.answer[1].kind = "error"
    /\ ~propLog.done
    /\ propLog.error = SourceError
    /\ srcProp = "a"
    /\ pc = "running"

\* C19: every signal a source subscription delivered has been handed to
\* g_dbus_connection_emit_signal on the target connection with the same
\* object path, interface name, signal name and parameters and with no
\* destination, and nothing else has been emitted; this includes
\* PropertiesChanged (interface 0, signal 0), payload unmodified.
C19_SignalReemittedUnchanged ==
    /\ \A n \in 1..Len(received) :
         \E m \in 1..Len(emitted) :
            emitted[m] = [connection |-> TargetConnection,
                          destination_bus_name |-> "NULL",
                          object_path |-> received[n].object_path,
                          interface_name |-> received[n].interface_name,
                          signal_name |-> received[n].signal_name,
                          parameters |-> received[n].parameters]
    /\ \A m \in 1..Len(emitted) :
         /\ emitted[m].destination_bus_name = "NULL"
         /\ emitted[m].connection = TargetConnection
         /\ \E n \in 1..Len(received) :
              /\ emitted[m].interface_name = received[n].interface_name
              /\ emitted[m].signal_name = received[n].signal_name
              /\ emitted[m].parameters = received[n].parameters

C19_Witness ==
    /\ variant = "crossbus"
    /\ Len(received) = 2
    /\ received[1].interface_name = 0
    /\ received[2].interface_name = 1
    /\ emitted[1].interface_name = 0
    /\ emitted[1].parameters = <<"changed", 1>>
    /\ emitted[1].destination_bus_name = "NULL"

\* C20: the sequence of signals emitted on the target is the sequence of
\* signals delivered by the source subscriptions, one emission per delivery
\* and in the same order, whatever method calls and property accesses were
\* handled in between.
C20_SignalOrderPreserved ==
    /\ Len(emitted) = Len(received)
    /\ \A n \in 1..Len(received) :
         n <= Len(emitted) =>
            /\ emitted[n].interface_name = received[n].interface_name
            /\ emitted[n].signal_name = received[n].signal_name
            /\ emitted[n].parameters = received[n].parameters
            /\ emitted[n].parameters[2] = n

C20_Witness ==
    /\ variant = "config"
    /\ Len(emitted) = 2
    /\ emitted[1].interface_name = 1
    /\ emitted[2].interface_name = 0
    /\ inv[1].st = "replied"
    /\ inv[2].st = "pending"
    /\ propLog.op = "set"

\* Every g_dbus_connection_signal_subscribe call made so far returned an id.
NoSubscriptionRefused == \A c \in subCalls : c.id # 0

\* C21: after setup there is exactly one subscription on the source bus for
\* every signal declared by every interface of the document, whether or not
\* the registration of the interface failed, and exactly one subscription
\* for PropertiesChanged (interface 0, signal 0).  Stated for the runs in
\* which the library refused no subscribe call.
C21_OneSubscriptionPerSignal ==
    (pc = "running" /\ NoSubscriptionRefused) =>
        /\ \A k \in 1..NumIfaces : \A j \in 1..interfaces[k] :
             Cardinality({s \in sourceSubs : s.iface = k /\ s.sig = j}) = 1
        /\ Cardinality({s \in sourceSubs : s.iface = 0 /\ s.sig = 0}) = 1

\* The lifecycle state of the context, read off the position of main: the
\* state is the phase whose call main is about to make or is making.  The
\* check of the interface array (crossbus) belongs to INTROSPECTING, the
\* PropertiesChanged subscription to REGISTERING.
Phase ==
    CASE pc = "init" -> "UNINITIALIZED"
      [] pc = "connect" -> "CONNECTING"
      [] pc \in {"introspect", "setup"} -> "INTROSPECTING"
      [] pc = "register" -> "REGISTERING"
      [] pc = "own_name" -> "NAME_ACQUIRING"
      [] pc = "running" -> "RUNNING"
      [] pc \in {"cleanup", "fail_cleanup", "fail_free", "fail_return"} -> "TEARING_DOWN"
      [] pc \in {"exited", "crashed"} -> "CLOSED"

\* The position of a lifecycle state in the order of the state machine.
PhaseRank(p) ==
    CASE p = "UNINITIALIZED" -> 0
      [] p = "CONNECTING" -> 1
      [] p = "INTROSPECTING" -> 2
      [] p = "REGISTERING" -> 3
      [] p = "NAME_ACQUIRING" -> 4
      [] p = "RUNNING" -> 5
      [] p = "TEARING_DOWN" -> 6
      [] p = "CLOSED" -> 7

\* C22: the lifecycle state only moves to the next state of the order
\* UNINITIALIZED, CONNECTING, INTROSPECTING, REGISTERING, NAME_ACQUIRING,
\* RUNNING, TEARING_DOWN, CLOSED, the only shortcut being the jump to
\* teardown on a failure in CONNECTING or INTROSPECTING (a failure path that
\* releases and returns in one step lands in CLOSED, and the step of
\* multibus that ends the loop and requests the name passes NAME_ACQUIRING).
\* Steps in which the process is ended by a termination signal or by a
\* fault are left out.
C22_LifecycleOrder ==
    [][\/ exited' \in {"signal", "crash"}
       \/ Phase' = Phase
       \/ PhaseRank(Phase') = PhaseRank(Phase) + 1
       \/ /\ Phase = "REGISTERING"
          /\ Phase' = "RUNNING"
          /\ nameRequests' = nameRequests + 1
       \/ /\ Phase \in {"CONNECTING", "INTROSPECTING"}
          /\ Phase' \in {"TEARING_DOWN", "CLOSED"}
      ]_vars

\* C23: a context that was RUNNING when the stop or termination signal came
\* ends CLOSED with its resources released: when the process has ended, the
\* teardown function has run, no registration and no subscription the setup
\* created is left, and both connections have been released.
C23_StopReleasesRunningContext ==
    (nameRequests >= 1 /\ pc = "exited" /\ exited \in {"main", "signal"}) =>
        /\ cleanupCalls >= 1
        /\ targetRegs = {}
        /\ sourceSubs = {}
        /\ source_bus = "unref"
        /\ target_bus = "unref"

\* C24: a failed acquisition of the facade bus name does not tear the
\* context down: main does not take the failure path and does not return,
\* and the registrations and subscriptions made by the setup stay until a
\* termination signal ends the process.
C24_NameFailureNeverTearsDown ==
    setupFailure = "name" =>
        /\ pc \notin {"fail_cleanup", "fail_free", "fail_return"}
        /\ exited # "main"
        /\ exited = "no" =>
             /\ Cardinality(targetRegs) = Cardinality({k \in 1..NumIfaces : regResult[k] = "ok"})
             /\ Cardinality(sourceSubs) = Cardinality({c \in subCalls : c.id # 0})

\* A step in which a callback of the main loop ran: a method-call handler,
\* a completion callback, a signal callback or a step of a property handler.
CallbackStep == inv' # inv \/ received' # received \/ propLog' # propLog

\* A step of the stop path: the SIGINT/SIGTERM source of multibus quits the
\* loop, or signal_handler of crossbus ends the process.
StopStep ==
    \/ variant = "multibus" /\ pc' = "cleanup" /\ UNCHANGED <<inv, sigVars, propVars>>
    \/ variant = "crossbus" /\ exited' = "signal"

\* GDBus dispatches a method call to the handler of the program.
AnyMethodCallHandled ==
    MB_handle_method_call \/ CF_handle_method_call \/ XB_handle_method_call

\* GDBus dispatches a signal of the source to the callback of the program.
AnySignalHandled ==
    \/ MB_on_signal_received
    \/ CF_on_signal_received
    \/ XB_on_signal_received
    \/ XB_on_properties_changed

\* GDBus dispatches a property Get or Set to the handler of the program, or
\* the handler gets its answer.
AnyPropertyAccessHandled ==
    \/ MB_handle_get_property
    \/ MB_handle_set_property
    \/ CF_handle_get_property
    \/ CF_handle_set_property
    \/ XB_handle_get_property
    \/ XB_handle_set_property

\* C25: RUNNING is left only by the stop path.  A callback step, whatever
\* its outcome (a forwarded call that failed or timed out, a property relay
\* that failed, an emission that failed), leaves main in RUNNING and the
\* registrations, the subscriptions, the ledger and the connections as they
\* were; and in RUNNING, whatever failed before, the next method call and
\* the next signal are still handled (as long as the run has calls and
\* signals left and no property relay is waiting).
C25_RunningLeftOnlyByStop ==
    /\ [][/\ (pc = "running" /\ pc' # "running") => StopStep
          /\ (pc = "running" /\ CallbackStep) =>
                /\ pc' = "running"
                /\ UNCHANGED <<targetRegs, sourceSubs, regResult, mbVars, xbVars,
                               busVars, exitVars>>
         ]_vars
    /\ [](pc = "running" /\ ~LoopBlocked =>
            /\ (targetRegs # {} /\ inv[MaxCalls].st = "idle") =>
                  ENABLED AnyMethodCallHandled
            /\ (sourceSubs # {} /\ Len(received) < MaxSignals) =>
                  ENABLED AnySignalHandled)

C25_Witness ==
    /\ pc = "running"
    /\ inv[1].st = "replied" /\ inv[1].result = "timeout"
    /\ inv[2].st = "pending"
    /\ Len(received) = 1
    /\ emitResult = "failed"
    /\ propLog.op = "get" /\ Len(propLog.answer) = 1 /\ propLog.answer[1].kind = "error"
    /\ Cardinality(targetRegs) = 1
    /\ Cardinality(sourceSubs) = 2

\* C26: while a property Get or Set relay waits for the answer of the
\* source, no other handler runs: no step handles a method call, runs the
\* completion callback of a forwarded call, handles a signal or starts
\* another property access, and the loop is not quit; the only step of the
\* loop thread is the return of that same property call.  (signal_handler
\* of crossbus is not a loop callback and may still end the process.)
C26_PropertyRelayBlocksLoop ==
    [][LoopBlocked =>
         /\ UNCHANGED <<inv, received, emitted, emitResult>>
         /\ pc' \in {"running", "exited", "crashed"}
         /\ pc' # "running" => (variant = "crossbus" /\ exited' \in {"signal", "crash"})
         /\ propLog' # propLog =>
              /\ propLog'.op = propLog.op
              /\ propLog'.call = propLog.call
              /\ propLog'.value = propLog.value
              /\ Len(propLog'.answer) = 1
      ]_vars

C26_Witness ==
    /\ variant = "multibus"
    /\ pc = "running"
    /\ LoopBlocked
    /\ propLog.op = "set"
    /\ inv[1].st = "pending"
    /\ inv[2].st = "idle"
    /\ sourceSubs # {}
    /\ Len(received) = 1

\* C27: the method-call handler returns to the loop right after issuing the
\* outbound call.  The step that accepts an invocation leaves it pending,
\* with its call in flight and no reply, and does not block the loop; the
\* completion is a later step of its own; and while a forwarded call is
\* pending the loop still handles a further method call, a signal and a
\* property access (as long as the run has some left).
C27_HandlerReturnsAtOnce ==
    /\ [][\A k \in 1..MaxCalls :
            /\ (inv[k].st = "idle" /\ inv'[k].st # "idle") =>
                  /\ inv'[k].st = "pending"
                  /\ inv'[k].reply = <<>>
                  /\ inv'[k].values + inv'[k].errors = 0
                  /\ ~LoopBlocked'
                  /\ pc' = "running"
            /\ inv'[k].st = "replied" => inv[k].st \in {"pending", "replied"}
         ]_vars
    /\ []((pc = "running" /\ ~LoopBlocked /\ \E k \in 1..MaxCalls : inv[k].st = "pending") =>
            /\ (targetRegs # {} /\ inv[MaxCalls].st = "idle") =>
                  ENABLED AnyMethodCallHandled
            /\ (sourceSubs # {} /\ Len(received) < MaxSignals) =>
                  ENABLED AnySignalHandled
            /\ targetRegs # {} => ENABLED AnyPropertyAccessHandled)

C27_Witness ==
    /\ variant = "config"
    /\ pc = "running"
    /\ inv[1].st = "pending"
    /\ inv[2].st = "replied"
    /\ Len(received) = 2
    /\ propLog.op = "get"
    /\ propLog.done

\* C29: a rejected subscribe call costs only its own signal.  Every signal
\* of every registered interface has been asked for, every call that was
\* accepted has its live subscription, main has not taken the failure path
\* because of the rejection, and in RUNNING the ledger holds exactly the ids
\* of the live subscriptions: the rejected call contributes no entry.
C29_RejectedSubscriptionLeavesNoEntry ==
    (\E c \in subCalls : c.id = 0) =>
        /\ setupFailure \notin {"subscribe"}
        /\ \A k \in 1..NumIfaces : \A j \in 1..interfaces[k] :
             regResult[k] = "ok" => \E c \in subCalls : c.iface = k /\ c.sig = j
        /\ pc \in {"register", "own_name", "running"} =>
             \A c \in subCalls :
                 c.id # 0 => [id |-> c.id, iface |-> c.iface, sig |-> c.sig] \in sourceSubs
        /\ (pc = "running" /\ variant \in {"multibus", "crossbus"}) =>
             TrackedSubs = LiveSubIds

\* C30: the facade bus name is requested only after registration has been
\* attempted for every interface of the document and every subscribe call
\* of the setup has been made: whenever main is at the request, or the
\* request has been made (accepted or refused), no interface is left
\* unattempted, every signal of every registered interface has been asked
\* for, and in config and crossbus so has PropertiesChanged.
C30_NameRequestedAfterRegistration ==
    (pc = "own_name" \/ nameRequests >= 1 \/ setupFailure = "name") =>
        /\ i = NumIfaces
        /\ \A k \in 1..NumIfaces : regResult[k] # "none"
        /\ \A k \in 1..NumIfaces : \A j \in 1..interfaces[k] :
             regResult[k] = "ok" => \E c \in subCalls : c.iface = k /\ c.sig = j
        /\ variant \in {"config", "crossbus"} =>
             \E c \in subCalls : c.iface = 0 /\ c.sig = 0

C30_Witness ==
    /\ variant = "config"
    /\ pc = "running"
    /\ nameRequests = 1
    /\ regResult = <<"fail", "ok">>
    /\ interfaces = <<1, 1>>
    /\ Cardinality(subCalls) = 2

C32_SignalEmittedInSameCallback ==
    /\ Len(emitted) = Len(received)
    /\ \A n \in 1..Len(received) :
         /\ n <= Len(emitted)
         /\ emitted[n].interface_name = received[n].interface_name
         /\ emitted[n].signal_name = received[n].signal_name
         /\ emitted[n].parameters = received[n].parameters

C32_Witness ==
    /\ Len(received) = 2
    /\ Len(emitted) = 2
    /\ inv[1].st = "replied"
    /\ inv[2].st = "pending"
    /\ propLog.op = "set" /\ Len(propLog.answer) = 1

\* C33: a forwarded call issued without a configured timeout (the programs
\* that have no timeout setting pass -1) is never ended by a timeout: its
\* completion callback never runs with the timeout error.
C33_NoTimeoutWhenUnconfigured ==
    [][\A k \in 1..MaxCalls :
         (/\ inv[k].st = "pending"
          /\ Len(inv[k].out) >= 1
          /\ inv[k].out[1].timeout_msec = "-1"
          /\ inv'[k].st = "replied") => inv'[k].result # "timeout"]_vars

\* C34: whenever a termination signal arrives (during setup, while the loop
\* runs, or while a teardown is already executing), no registration and no
\* subscription is released more than once and the handler does not touch
\* freed state (it does not fault on it).
C34_TerminationSignalReleasesOnce ==
    /\ \A id \in 1..IdMax : unregCalls[id] <= 1 /\ unsubCalls[id] <= 1
    /\ variant = "crossbus" => exited # "crash"

\* C35: no handler (method call, completion callback, property accessor,
\* signal callback) runs once a teardown has begun: every handler step starts
\* with the context alive and both connections open, and after the first
\* teardown call no invocation is accepted or answered, no signal is relayed
\* and no property access is handled.  A call pending at teardown therefore
\* never completes.
C35_NoHandlerAfterTeardown ==
    [][/\ CallbackStep =>
            /\ pc = "running"
            /\ cleanupCalls = 0
            /\ variant = "multibus" => ctx = "alive"
            /\ variant = "crossbus" => proxy_state = "alive"
            /\ source_bus = "open" /\ target_bus = "open"
       /\ cleanupCalls >= 1 => UNCHANGED <<inv, received, emitted, emitResult, propLog>>
      ]_vars

C35_Witness ==
    /\ variant = "multibus"
    /\ pc = "exited"
    /\ ctx = "freed"
    /\ cleanupCalls = 1
    /\ inv[1].st = "replied"
    /\ inv[2].st = "pending"
    /\ Len(received) = 1

\* C36: one emission of the source (identified by its payload) is re-emitted
\* on the target at most once, also when the document declares
\* PropertiesChanged, so that the subscription made for the declared signal
\* and the additional PropertiesChanged subscription both match it.
C36_EmissionRelayedAtMostOnce ==
    \A a, b \in 1..Len(emitted) :
        emitted[a].parameters = emitted[b].parameters => a = b

\* C37: no forwarded method call and no forwarded property access is routed
\* to the proxy's own facade: at the step a handler issues its outbound call,
\* the connection the bus delivers it to is not the proxy's, also when
\* source and target are the same bus and the facade name equals the source
\* service name.
C37_NeverRoutedToFacade ==
    [][/\ \A k \in 1..MaxCalls :
            (inv[k].st = "idle" /\ inv'[k].st = "pending") =>
                \A n \in 1..Len(inv'[k].out) : RoutedTo(inv'[k].out[n]) # "proxy"
       /\ (propLog' # propLog /\ propLog'.answer = <<>>) =>
            RoutedTo(propLog'.call[1]) # "proxy"
      ]_vars

\* C38: the invalid identifier 0 is never among the tracked identifiers and
\* is never passed to unsubscribe or unregister; every identifier teardown
\* releases was returned by a register or subscribe call that succeeded.
C38_OnlyValidIdsTrackedAndReleased ==
    /\ 0 \notin TrackedRegs
    /\ 0 \notin TrackedSubs
    /\ unregCalls[0] = 0
    /\ unsubCalls[0] = 0
    /\ \A id \in 1..IdMax :
         /\ unregCalls[id] > 0 => id < nextRegId
         /\ unsubCalls[id] > 0 => \E c \in subCalls : c.id = id

\* C39: whenever setup is about to make a fallible call (connect,
\* introspect and parse, or the registration of the next interface), the
\* error slot it passes is empty: it does not hold the freed error of an
\* earlier failed registration.
C39_ErrorSlotEmptyBeforeCall ==
    /\ pc \in {"connect", "introspect"} => error = "null"
    /\ (pc = "register" /\ ~interfacesNull /\ RegisterLoopContinues(i, NumIfaces)) =>
         error = "null"

====
